---- MODULE Spec2Model ----
(***************************************************************************)
(* Klaviyo API client (KlaviyoClient) with its response cache.             *)
(*                                                                         *)
(* The client's resource operations build a cache key, then go through     *)
(* cache.getOrFetch with a producer that performs the HTTP request.  The   *)
(* cache object is one module-level PluginCache shared by every client     *)
(* instance; each client keeps its own cacheDisabled flag.                 *)
(*                                                                         *)
(* A resource call suspends at the network request only: the part before   *)
(* the await (key, cache lookup, counters, issuing the request) is one     *)
(* step, the settlement of the request (store the result, or propagate     *)
(* the failure) is another.                                                *)
(***************************************************************************)
EXTENDS Integers, Sequences, FiniteSets, TLC

\* ------------------------------------------------------------------ bounds

\* Time runs from 0 to MaxTime, in units of five minutes.
MaxTime == 3
\* Network requests issued in one behaviour.
MaxCalls == 2
\* Cache hits counted in one behaviour.
MaxHits == 1
\* Pages in a flow's chain of flow actions.
MaxPages == 2
\* getAllFlowActions invocations in one behaviour.
MaxRuns == 2
\* Entries in a parameter bag given to the key builder.
MaxParams == 2

\* ----------------------------------------------------------------- domains

Undefined == "undefined"

\* The KlaviyoClient instances of the process.  They share the one cache.
Clients == {"A", "B"}

\* Campaign ids passed to getCampaign.
CampaignIds == {"c1", "c2"}

\* Options of getCampaigns.
Channels == {"email", "sms"}
Filters == {"flt"}
PageSizes == {"10", "20"}

\* Versions of the upstream data: the API may answer the same request
\* differently at different times.
Versions == {"v1", "v2"}

\* Flows, and the data a page of flow actions may carry.
FlowIds == {"f1"}
PageData == {<< "x", "y" >>, << "y" >>}

\* Cursor tokens of the API: CursorTokens[i] asks for page i + 1.
CursorTokens == << "p2", "p3", "p4", "p5" >>

\* Inputs of the key builder.
Resources == {"segments", "flows"}
BagNames == {"cursor", "filter", "id"}
BagValues == {"a", "b"}

\* How a request fails: a non-2xx status, a transport error, the abort
\* fired by the timeout.
FailKinds == {"http", "transport", "timeout"}

\* ------------------------------------------------------------ TTL policy

FIVE_MINUTES == 1
FIFTEEN_MINUTES == 3
HOUR == 12

\* --------------------------------------------------------- cache key builder

\* A parameter bag is a sequence of entries, in the order the caller wrote them.
Param(n, v) == [name |-> n, value |-> v]

\* The parameter names the client uses, in lexicographic order.
ParamNames ==
    << "campaignIds", "channel", "conversionMetricId", "cursor", "filter",
       "flowId", "flowIds", "id", "statistics", "timeframe" >>

ParamRank(n) == CHOOSE i \in 1..Len(ParamNames) : ParamNames[i] = n

\* The entries whose value is defined.
RECURSIVE DropUndefined(_)
DropUndefined(params) ==
    IF params = << >> THEN << >>
    ELSE IF Head(params).value = Undefined THEN DropUndefined(Tail(params))
    ELSE << Head(params) >> \o DropUndefined(Tail(params))

\* Insert an entry into a sequence sorted by parameter name.
RECURSIVE InsertSorted(_, _)
InsertSorted(p, sorted) ==
    IF sorted = << >> THEN << p >>
    ELSE IF ParamRank(p.name) <= ParamRank(Head(sorted).name)
         THEN << p >> \o sorted
         ELSE << Head(sorted) >> \o InsertSorted(p, Tail(sorted))

RECURSIVE SortParams(_)
SortParams(params) ==
    IF params = << >> THEN << >>
    ELSE InsertSorted(Head(params), SortParams(Tail(params)))

\* name, value, name, value, ... of the entries, in order.
RECURSIVE Serialize(_)
Serialize(params) ==
    IF params = << >> THEN << >>
    ELSE << Head(params).name, Head(params).value >> \o Serialize(Tail(params))

\* A key that keeps the entries in the order given.
createCacheKeyUnsorted(resource, params) ==
    << resource >> \o Serialize(DropUndefined(params))

\* The key: the resource token followed by the defined entries in name order.
createCacheKey(resource, params) ==
    << resource >> \o Serialize(SortParams(DropUndefined(params)))

\* ------------------------------------------------------------------- state

VARIABLES
    store,          \* PluginCache: key -> [value, expiresAt, insertedAt]
    hits,           \* PluginCache: hit counter
    misses,         \* PluginCache: miss counter
    disabled,       \* PluginCache: the global bypass flag
    cacheDisabled,  \* KlaviyoClient.cacheDisabled, per client instance
    now,            \* the clock
    inflight,       \* the requests issued and not yet settled
    netCalls,       \* number of requests issued so far
    ret,            \* what the most recent call returned to its caller
    upstream,       \* the API's flow actions: flow id -> sequence of pages
    run,            \* the getAllFlowActions invocation in progress
    keyIn,          \* inputs of the key builder under test
    keyOut,         \* the keys built from keyIn
    prev,           \* what is remembered of the previous getAllFlowActions invocation
    timeout,        \* KlaviyoClient.timeout of each client, in milliseconds
    armed,          \* per client, the abort timers request() set since setTimeout
    made,           \* per client, what its constructor produced
    cmd             \* the command the CLI is running

cacheVars == << store, hits, misses, disabled, cacheDisabled, now, inflight, netCalls, ret >>

pageVars == << upstream, run >>

keyVars == << keyIn, keyOut >>

timeVars == << timeout, armed >>

cliVars == << made, cmd >>

vars == << cacheVars, pageVars, keyVars, prev, timeVars, cliVars >>

DEFAULT_TIMEOUT == 30000

\* No timer set: request() has not run for that class of call.
NoTimer == -1

\* The clients as constructed: the default timeout, no request made.
InitTime ==
    /\ timeout = [c \in Clients |-> DEFAULT_TIMEOUT]
    /\ armed = [c \in Clients |-> [report |-> NoTimer, other |-> NoTimer]]

\* What new KlaviyoClient() produced: an instance holding its API key, or
\* the Error the constructor threw; files are the contents it found at the
\* two paths it tries.
Instance(files, apiKey) ==
    [status |-> "instance", apiKey |-> apiKey, error |-> Undefined, files |-> files]

Thrown(files, error) ==
    [status |-> "thrown", apiKey |-> Undefined, error |-> error, files |-> files]

NotMade == [status |-> "none", apiKey |-> Undefined, error |-> Undefined, files |-> << >>]

\* No command has been given to the CLI.
NoCommand ==
    [name |-> "none", pc |-> "idle", args |-> << >>, started |-> 0, before |-> 0,
     id |-> Undefined, metrics |-> [none |-> TRUE], result |-> [none |-> TRUE],
     error |-> Undefined]

\* The clients constructed from a config file with klaviyo.apiKey, and the
\* CLI idle.
InitCli ==
    /\ made = [c \in Clients |-> Instance(<< "direct", "unreadable" >>, "pk_direct")]
    /\ cmd = NoCommand

NoEntries == [k \in {} |-> TRUE]

NoReturn ==
    [kind |-> "none", key |-> << >>, value |-> [none |-> TRUE]]

\* The module-level cache as constructed, and the clients' fields.
InitCache ==
    /\ store = NoEntries
    /\ hits = 0
    /\ misses = 0
    /\ disabled = FALSE
    /\ cacheDisabled = [c \in Clients |-> FALSE]
    /\ now = 0
    /\ inflight = {}
    /\ netCalls = 0
    /\ ret = NoReturn

\* ------------------------------------------------------------- cache store

\* An entry is valid iff the current time is before its expiresAt.
Valid(s, k, t) == k \in DOMAIN s /\ t < s[k].expiresAt

Remove(s, k) == [x \in DOMAIN s \ {k} |-> s[x]]

Put(s, k, e) == [x \in DOMAIN s \cup {k} |-> IF x = k THEN e ELSE s[x]]

\* set() writing whether or not the store is disabled.
CacheSetAlways(s, k, v, ttl) ==
    Put(s, k, [value |-> v, expiresAt |-> now + ttl, insertedAt |-> now])

\* set(key, value, ttl): a no-op while the store is disabled.
CacheSet(s, k, v, ttl) ==
    IF disabled THEN s
    ELSE Put(s, k, [value |-> v, expiresAt |-> now + ttl, insertedAt |-> now])

\* The stores a lookup of k may leave behind: an expired entry may be
\* evicted by the read, or stay.
AfterLookup(s, k) ==
    IF k \in DOMAIN s /\ ~Valid(s, k, now) THEN {s, Remove(s, k)} ELSE {s}

\* ------------------------------------------------------ fetch-or-populate

\* A request the producer issued: the key and ttl of the getOrFetch call it
\* belongs to, and whether that call stores the result (it does unless it
\* bypassed the cache).  copy tells apart identical requests in flight at
\* the same time.
Issued(key, req, ttl, write) ==
    LET f(i) == [copy |-> i, key |-> key, req |-> req, ttl |-> ttl, write |-> write]
        free == {i \in 1..(Cardinality(inflight) + 1) : f(i) \notin inflight}
    IN  f(CHOOSE i \in free : \A j \in free : i <= j)

\* What a call hands to its caller: a value from the cache ("hit"), from
\* the network after a miss ("miss") or a bypass ("bypass"), a thrown error
\* ("error"), or the plain result of a cache control method ("value").
Returned(kind, key, value) == [kind |-> kind, key |-> key, value |-> value]

\* getOrFetch that looks nothing up: every call runs the producer and
\* writes the result.
getOrFetchNoLookup(key, req, ttl, bypassCache) ==
    /\ netCalls' = netCalls + 1
    /\ inflight' = inflight \cup {Issued(key, req, ttl, ~(bypassCache \/ disabled))}
    /\ misses' = misses + 1
    /\ UNCHANGED << store, hits, ret, disabled, cacheDisabled, now >>

\* getOrFetch(key, producer, {ttl, bypassCache}) up to its await.  The
\* producer of every resource operation issues exactly one request, req.
getOrFetch(key, req, ttl, bypassCache) ==
    /\ IF bypassCache \/ disabled
       THEN /\ netCalls' = netCalls + 1
            /\ inflight' = inflight \cup {Issued(key, req, ttl, FALSE)}
            /\ UNCHANGED << store, hits, misses, ret >>
       ELSE IF Valid(store, key, now)
       THEN /\ hits' = hits + 1
            /\ ret' = Returned("hit", key, store[key].value)
            /\ UNCHANGED << store, misses, inflight, netCalls >>
       ELSE /\ misses' = misses + 1
            /\ netCalls' = netCalls + 1
            /\ store' \in AfterLookup(store, key)
            /\ inflight' = inflight \cup {Issued(key, req, ttl, TRUE)}
            /\ UNCHANGED << hits, ret >>
    /\ UNCHANGED << disabled, cacheDisabled, now >>

\* getOrFetch after its await, the producer having resolved with value v.
getOrFetchResolve(f, v) ==
    /\ inflight' = inflight \ {f}
    /\ store' = IF f.write THEN CacheSet(store, f.key, v, f.ttl) ELSE store
    /\ ret' = Returned(IF f.write THEN "miss" ELSE "bypass", f.key, v)
    /\ UNCHANGED << hits, misses, disabled, cacheDisabled, now, netCalls >>

\* getOrFetch after its await, the producer having rejected with err.
getOrFetchReject(f, err) ==
    /\ inflight' = inflight \ {f}
    /\ ret' = Returned("error", f.key, err)
    /\ UNCHANGED << store, hits, misses, disabled, cacheDisabled, now, netCalls >>

\* ---------------------------------------------------------------- HTTP layer

\* request(method, endpoint): the path and the query parameters of the
\* endpoint, the parameters in the order URLSearchParams.set added them.
Request(method, path, query) == [method |-> method, path |-> path, query |-> query]

\* URLSearchParams.get(name): the first value of the parameter, null if none.
Null == "null"

RECURSIVE searchParamsGet(_, _)
searchParamsGet(query, name) ==
    IF query = << >> THEN Null
    ELSE IF Head(query).name = name THEN Head(query).value
    ELSE searchParamsGet(Tail(query), name)

\* The link to the page after the one a request asked for.
NextLink(req, token) ==
    [path |-> req.path,
     query |-> << Param("page[cursor]", token), Param("page[size]", "50") >>]

NoLink == [path |-> << >>, query |-> << >>]

\* The page a cursor token asks for.
PageOf(cursor) == 1 + CHOOSE i \in DOMAIN CursorTokens : CursorTokens[i] = cursor

\* Page i of a flow's actions as the API returns it: the page's data, and a
\* links.next carrying the cursor of the next page unless it is the last.
FlowActionsPage(req, pages, i) ==
    [data |-> pages[i],
     links |-> [next |-> IF i < Len(pages) THEN NextLink(req, CursorTokens[i]) ELSE NoLink]]

\* The shapes of links.next besides a link to the next page: a link with no
\* page[cursor] parameter, one whose page[cursor] is empty, and one that
\* carries again the cursor the request asked for.
LinkShapes == {"nocursor", "empty", "repeat"}

OddLink(req, cur, link, shape) ==
    CASE shape = "nocursor" -> [path |-> req.path, query |-> << Param("page[size]", "50") >>]
      [] shape = "empty" -> NextLink(req, "")
      [] shape = "repeat" /\ cur # Null -> NextLink(req, cur)
      [] OTHER -> link

\* What the API answers to a request.  A flow-actions request selects a
\* page of the flow by its cursor; any other request gets the data it
\* selects, as of some version of the account's data.
Response(req, ver) ==
    IF Len(req.path) = 3 /\ req.path[3] = "flow-actions"
    THEN LET pages == upstream[req.path[2]]
             cur == searchParamsGet(req.query, "page[cursor]")
             i == IF cur = Null THEN 1 ELSE PageOf(cur)
         IN  IF ver \in LinkShapes
             THEN [FlowActionsPage(req, pages, i) EXCEPT
                       !.links.next = OddLink(req, cur, @, ver)]
             ELSE FlowActionsPage(req, pages, i)
    ELSE [req |-> req, ver |-> ver]

\* The Error request() throws.
Failure(kind) == [error |-> kind]

\* request(): the response is ok, its JSON body is returned.
requestOk(f, ver) ==
    /\ f \in inflight
    /\ getOrFetchResolve(f, Response(f.req, ver))

\* request() sending the request again when it failed.
requestFailRetry(f, kind) ==
    /\ f \in inflight
    /\ netCalls' = netCalls + 1
    /\ UNCHANGED << store, hits, misses, disabled, cacheDisabled, now, inflight, ret >>

\* request() returning the error as if it were a response body.
requestFailAsBody(f, kind) ==
    /\ f \in inflight
    /\ getOrFetchResolve(f, Failure(kind))

\* request(): fetch rejects (transport error, abort by the timeout) or the
\* response is not ok; an Error is thrown.
requestFail(f, kind) ==
    /\ f \in inflight
    /\ getOrFetchReject(f, Failure(kind))

\* request(): the delay of the abort timer, customTimeout || this.timeout.
\* A request made without customTimeout has none (undefined, falsy like 0).
requestTimeout(c, req) ==
    LET customTimeout == IF "customTimeout" \in DOMAIN req THEN req.customTimeout ELSE 0
    IN  IF customTimeout # 0 THEN customTimeout ELSE timeout[c]

\* setTimeout(ms)
setTimeout(c, ms) ==
    /\ timeout' = [timeout EXCEPT ![c] = ms]
    /\ UNCHANGED cacheVars

\* ------------------------------------------------------------- construction

\* JavaScript truthiness of an optional string.
Truthy(v) == v # Undefined /\ v # ""

\* What readFileSync finds at a path: no readable file, a file that is not
\* JSON, the JSON null, an object without keys, an object with
\* klaviyo.apiKey (set or empty), with mcpServer.env.PRIVATE_API_KEY, with
\* an empty klaviyo.apiKey and the legacy key, or with both keys.
ConfigContents ==
    {"unreadable", "invalid", "null", "empty", "direct", "directEmpty", "legacy",
     "legacyFallback", "both"}

\* JSON.parse(readFileSync(path, "utf-8")) returns rather than throws.
Parses(content) == content \notin {"unreadable", "invalid"}

\* The parsed value: whether it is truthy, its klaviyo?.apiKey and its
\* mcpServer?.env?.PRIVATE_API_KEY.
ConfigFile(content) ==
    [truthy |-> content # "null",
     apiKey |-> CASE content \in {"direct", "both"} -> "pk_direct"
                  [] content \in {"directEmpty", "legacyFallback"} -> ""
                  [] OTHER -> Undefined,
     legacy |-> IF content \in {"legacy", "legacyFallback", "both"}
                THEN "pk_legacy" ELSE Undefined]

\* let configFile = null
NoConfigFile == [truthy |-> FALSE, apiKey |-> Undefined, legacy |-> Undefined]

\* The loop over possiblePaths: the first path that parses ends it.
RECURSIVE readConfig(_)
readConfig(files) ==
    IF files = << >> THEN NoConfigFile
    ELSE IF Parses(Head(files)) THEN ConfigFile(Head(files))
    ELSE readConfig(Tail(files))

\* A constructor that makes an instance without a key when the file has none.
constructorLenient(files) ==
    LET configFile == readConfig(files)
    IN  IF ~configFile.truthy THEN Thrown(files, "Config file not found")
        ELSE IF Truthy(configFile.apiKey) THEN Instance(files, configFile.apiKey)
        ELSE Instance(files, configFile.legacy)

\* The constructor's result for the files at the two paths.
constructor(files) ==
    LET configFile == readConfig(files)
    IN  IF ~configFile.truthy THEN Thrown(files, "Config file not found")
        ELSE IF Truthy(configFile.apiKey) THEN Instance(files, configFile.apiKey)
        ELSE IF Truthy(configFile.legacy) THEN Instance(files, configFile.legacy)
        ELSE Thrown(files, "Missing required config")

\* new KlaviyoClient() for the client c, which is not there yet.
construct(c, files) ==
    /\ made[c].status # "instance"
    /\ made' = [made EXCEPT ![c] = constructor(files)]
    /\ UNCHANGED << cacheVars, pageVars, keyVars, prev, timeVars, cmd >>

\* -------------------------------------------------------------- cache control

\* disableCache dropping the entries as well.
disableCacheAndClear(c) ==
    /\ cacheDisabled' = [cacheDisabled EXCEPT ![c] = TRUE]
    /\ disabled' = TRUE
    /\ store' = NoEntries
    /\ UNCHANGED << hits, misses, now, inflight, netCalls, ret >>

\* enableCache clearing the client's flag and leaving the store as it is.
enableCacheFlagOnly(c) ==
    /\ cacheDisabled' = [cacheDisabled EXCEPT ![c] = FALSE]
    /\ UNCHANGED << disabled, store, hits, misses, now, inflight, netCalls, ret >>

disableCache(c) ==
    /\ cacheDisabled' = [cacheDisabled EXCEPT ![c] = TRUE]
    /\ disabled' = TRUE
    /\ UNCHANGED << store, hits, misses, now, inflight, netCalls, ret >>

enableCache(c) ==
    /\ cacheDisabled' = [cacheDisabled EXCEPT ![c] = FALSE]
    /\ disabled' = FALSE
    /\ UNCHANGED << store, hits, misses, now, inflight, netCalls, ret >>

\* getStats(): the counters and the number of entries.
getCacheStats == [hits |-> hits, misses |-> misses, size |-> Cardinality(DOMAIN store)]

\* clearCache resetting the statistics as well.
clearCacheAndStats(c) ==
    /\ store' = NoEntries
    /\ hits' = 0
    /\ misses' = 0
    /\ ret' = Returned("value", << >>, [count |-> Cardinality(DOMAIN store)])
    /\ UNCHANGED << disabled, cacheDisabled, now, inflight, netCalls >>

\* clearCache reporting the count without removing anything.
clearCacheCountOnly(c) ==
    /\ ret' = Returned("value", << >>, [count |-> Cardinality(DOMAIN store)])
    /\ UNCHANGED << store, hits, misses, disabled, cacheDisabled, now, inflight, netCalls >>

\* clear(): removes all entries, returns the count removed.
clearCache(c) ==
    /\ store' = NoEntries
    /\ ret' = Returned("value", << >>, [count |-> Cardinality(DOMAIN store)])
    /\ UNCHANGED << hits, misses, disabled, cacheDisabled, now, inflight, netCalls >>

\* invalidateCacheKey removing every entry.
invalidateCacheKeyAll(c, key) ==
    /\ store' = NoEntries
    /\ ret' = Returned("value", key, [removed |-> key \in DOMAIN store])
    /\ UNCHANGED << hits, misses, disabled, cacheDisabled, now, inflight, netCalls >>

\* invalidate(key): removes the entry if present, returns whether it did.
invalidateCacheKey(c, key) ==
    /\ store' = Remove(store, key)
    /\ ret' = Returned("value", key, [removed |-> key \in DOMAIN store])
    /\ UNCHANGED << hits, misses, disabled, cacheDisabled, now, inflight, netCalls >>

\* ------------------------------------------------------- campaign operations

buildChannelFilter(channel) == << "equals(messages.channel,'", channel, "')" >>

getCampaignKey(campaignId) == createCacheKey("campaign", << Param("id", campaignId) >>)

getCampaignRequest(campaignId) == Request("GET", << "campaigns", campaignId >>, << >>)

\* getCampaign always going to the network.
getCampaignUncached(c, campaignId) ==
    getOrFetch(getCampaignKey(campaignId), getCampaignRequest(campaignId),
               FIFTEEN_MINUTES, TRUE)

\* getCampaign storing for an hour.
getCampaignHour(c, campaignId) ==
    getOrFetch(getCampaignKey(campaignId), getCampaignRequest(campaignId),
               HOUR, cacheDisabled[c])

\* getCampaign ignoring the client's bypass flag.
getCampaignNoBypass(c, campaignId) ==
    getOrFetch(getCampaignKey(campaignId), getCampaignRequest(campaignId),
               FIFTEEN_MINUTES, FALSE)

getCampaign(c, campaignId) ==
    getOrFetch(getCampaignKey(campaignId), getCampaignRequest(campaignId),
               FIFTEEN_MINUTES, cacheDisabled[c])

CampaignsOptions ==
    [channel : Channels \cup {Undefined}, filter : Filters \cup {Undefined},
     pageSize : PageSizes \cup {Undefined}, cursor : {Undefined}]

\* getCampaigns defaulting to the sms channel.
getCampaignsChannelSms(options) ==
    IF Truthy(options.channel) THEN options.channel ELSE "sms"

getCampaignsChannel(options) ==
    IF Truthy(options.channel) THEN options.channel ELSE "email"

getCampaignsKey(options) ==
    createCacheKey("campaigns",
                   << Param("channel", getCampaignsChannel(options)),
                      Param("filter", options.filter),
                      Param("cursor", options.cursor) >>)

\* The request the producer of getCampaigns makes.
getCampaignsRequest(options) ==
    LET channelFilter == buildChannelFilter(getCampaignsChannel(options))
        filterStr == IF Truthy(options.filter)
                     THEN << "and(" >> \o channelFilter \o << ",", options.filter, ")" >>
                     ELSE channelFilter
    IN  Request("GET", << "campaigns" >>,
                << Param("filter", filterStr) >>
                \o (IF Truthy(options.pageSize)
                    THEN << Param("page[size]", options.pageSize) >> ELSE << >>)
                \o (IF Truthy(options.cursor)
                    THEN << Param("page[cursor]", options.cursor) >> ELSE << >>)
                \o << Param("fields[campaign]", "name,status,archived,...") >>)

getCampaigns(c, options) ==
    getOrFetch(getCampaignsKey(options), getCampaignsRequest(options),
               FIFTEEN_MINUTES, cacheDisabled[c])

\* ------------------------------------------------------------------- clock

Tick ==
    /\ now < MaxTime
    /\ now' = now + 1
    /\ UNCHANGED << store, hits, misses, disabled, cacheDisabled, inflight, netCalls, ret >>

\* -------------------------------------------------------- segment operations

SegmentsOptions == [pageSize : PageSizes \cup {Undefined}, cursor : {Undefined}]

getSegmentsKey(options) ==
    createCacheKey("segments", << Param("cursor", options.cursor) >>)

\* ----------------------------------------------------------- flow actions

getFlowActionsKeyOfFlow(flowId, options) ==
    createCacheKey("flow_actions", << Param("flowId", flowId) >>)

getFlowActionsKey(flowId, options) ==
    createCacheKey("flow_actions",
                   << Param("flowId", flowId), Param("cursor", options.cursor) >>)

\* The request the producer of getFlowActions makes.
getFlowActionsRequest(flowId, options) ==
    Request("GET", << "flows", flowId, "flow-actions" >>,
            << Param("fields[flow-action]", "action_type,status,...") >>
            \o (IF Truthy(options.cursor)
                THEN << Param("page[cursor]", options.cursor) >> ELSE << >>)
            \o << Param("page[size]", "50") >>)

getFlowActions(c, flowId, options) ==
    getOrFetch(getFlowActionsKey(flowId, options), getFlowActionsRequest(flowId, options),
               FIFTEEN_MINUTES, cacheDisabled[c])

\* A cursor taken from every links.next there is: the loop goes on to the
\* first page's successor when the link names no cursor.
NextCursorAnyLink(response) ==
    IF response.links.next # NoLink
    THEN LET v == searchParamsGet(response.links.next.query, "page[cursor]")
         IN  IF v = Null \/ v = "" THEN CursorTokens[1] ELSE v
    ELSE Undefined

\* The cursor getAllFlowActions takes from a page: the page[cursor] parameter
\* of links.next, undefined when the link or the parameter is missing or the
\* parameter is empty.
NextCursor(response) ==
    IF response.links.next # NoLink
    THEN LET v == searchParamsGet(response.links.next.query, "page[cursor]")
         IN  IF v = Null \/ v = "" THEN Undefined ELSE v
    ELSE Undefined

\* The items not seen before, each once.
RECURSIVE Distinct(_, _)
Distinct(seen, items) ==
    IF items = << >> THEN << >>
    ELSE IF \E i \in DOMAIN seen : seen[i] = Head(items)
         THEN Distinct(seen, Tail(items))
         ELSE << Head(items) >> \o Distinct(seen \o << Head(items) >>, Tail(items))

\* A push that skips the actions already collected.
PushDistinct(allActions, data) == allActions \o Distinct(allActions, data)

\* allActions.push(...response.data)
Push(allActions, data) == allActions \o data

\* No getAllFlowActions invocation has started yet.
NoRun ==
    [pc |-> "idle", client |-> "A", flowId |-> "f1", cursor |-> Undefined,
     allActions |-> << >>, calls |-> << >>, started |-> 0]

\* A loop that goes round again whatever the page says.
AfterPageAgain(r, response) ==
    [r EXCEPT !.allActions = Push(@, response.data),
              !.cursor = NextCursor(response),
              !.pc = "call"]

\* The loop body after the await: push the page, take the next cursor, and
\* go round again while there is one.
AfterPage(r, response) ==
    LET cursor == NextCursor(response)
    IN  [r EXCEPT !.allActions = Push(@, response.data),
                  !.cursor = cursor,
                  !.pc = IF Truthy(cursor) THEN "call" ELSE "done"]

\* getAllFlowActions(flowId) is called on client c.
getAllFlowActions(c, flowId) ==
    /\ run.pc \in {"idle", "done", "failed"}
    /\ run' = [pc |-> "call", client |-> c, flowId |-> flowId, cursor |-> Undefined,
               allActions |-> << >>, calls |-> << >>, started |-> run.started + 1]
    /\ UNCHANGED << cacheVars, upstream, keyVars >>

\* The loop calls getFlowActions(flowId, {cursor}).  calls records the cursor
\* of each call.  A hit hands the page over at once, otherwise the loop waits
\* for the request.
getAllFlowActionsCall ==
    /\ run.pc = "call"
    /\ getFlowActions(run.client, run.flowId, [cursor |-> run.cursor])
    /\ LET called == [run EXCEPT !.calls = Append(@, run.cursor)]
       IN  run' = IF inflight' = inflight
                  THEN AfterPage(called, ret'.value)
                  ELSE [called EXCEPT !.pc = "await"]
    /\ UNCHANGED << upstream, keyVars >>

\* The request of the pending getFlowActions call succeeds.
getAllFlowActionsPage(f, ver) ==
    /\ run.pc = "await"
    /\ requestOk(f, ver)
    /\ run' = AfterPage(run, ret'.value)
    /\ UNCHANGED << upstream, keyVars >>

\* The request of the pending getFlowActions call fails: the error
\* propagates out of getAllFlowActions.
getAllFlowActionsThrow(f, kind) ==
    /\ run.pc = "await"
    /\ requestFail(f, kind)
    /\ run' = [run EXCEPT !.pc = "failed"]
    /\ UNCHANGED << upstream, keyVars >>

\* ------------------------------------------------------ report operations

\* request(method, endpoint, body, customTimeout) as the report operations
\* call it: a POST with a body and a timeout of its own, in milliseconds.
ReportRequest(path, body) ==
    [method |-> "POST", path |-> path, query |-> << >>, body |-> body,
     customTimeout |-> 60000]

\* Array.join(",") and JSON.stringify on the arguments the model uses.
Join(ids) ==
    IF ids = Undefined THEN Undefined
    ELSE IF ids = << >> THEN ""
    ELSE IF ids = << "c1" >> THEN "c1"
    ELSE IF ids = << "f1" >> THEN "f1"
    ELSE IF ids = << "opens" >> THEN "opens"
    ELSE "c1,c2"

Stringify(timeframe) ==
    IF timeframe = Undefined THEN Undefined ELSE "{\"key\":\"last_30_days\"}"

CampaignReportOptions ==
    [conversionMetricId : {"m1"}, campaignIds : {Undefined, << "c1" >>},
     timeframe : {Undefined, "last_30_days"}, statistics : {Undefined}]

getCampaignReportKey(options) ==
    createCacheKey("campaign_report",
                   << Param("campaignIds", Join(options.campaignIds)),
                      Param("timeframe", Stringify(options.timeframe)),
                      Param("statistics", Join(options.statistics)),
                      Param("conversionMetricId", options.conversionMetricId) >>)

getCampaignReportRequest(options) ==
    ReportRequest(<< "campaign-values-reports" >>,
                  << Param("statistics", IF options.statistics = Undefined
                                         THEN "defaultStats" ELSE Join(options.statistics)),
                     Param("conversion_metric_id", options.conversionMetricId) >>
                  \o (IF Truthy(options.timeframe)
                      THEN << Param("timeframe", Stringify(options.timeframe)) >> ELSE << >>)
                  \o (IF options.campaignIds # Undefined /\ options.campaignIds # << >>
                      THEN << Param("filter", "any(campaign_id,[...])") >> ELSE << >>))

getCampaignReport(c, options) ==
    getOrFetch(getCampaignReportKey(options), getCampaignReportRequest(options),
               FIVE_MINUTES, cacheDisabled[c])

FlowReportOptions ==
    [flowIds : {Undefined, << "f1" >>}, timeframe : {Undefined, "last_30_days"}]

getFlowReportKey(options) ==
    createCacheKey("flow_report",
                   << Param("flowIds", Join(options.flowIds)),
                      Param("timeframe", Stringify(options.timeframe)) >>)

getFlowReportRequest(options) ==
    ReportRequest(<< "flow-values-reports" >>,
                  << Param("statistics", "recipients,delivered,...") >>
                  \o (IF Truthy(options.timeframe)
                      THEN << Param("timeframe", Stringify(options.timeframe)) >> ELSE << >>)
                  \o (IF options.flowIds # Undefined /\ options.flowIds # << >>
                      THEN << Param("filter", "any(flow_id,[...])") >> ELSE << >>))

\* getFlowReport storing for fifteen minutes.
getFlowReportFifteen(c, options) ==
    getOrFetch(getFlowReportKey(options), getFlowReportRequest(options),
               FIFTEEN_MINUTES, cacheDisabled[c])

getFlowReport(c, options) ==
    getOrFetch(getFlowReportKey(options), getFlowReportRequest(options),
               FIVE_MINUTES, cacheDisabled[c])

\* ------------------------------------------- the other resource operations

\* The query of a list operation: filter, page[size] and page[cursor] when
\* given, then the fields parameter.
ListQuery(options, fieldsName, fields) ==
    (IF "filter" \in DOMAIN options /\ Truthy(options.filter)
     THEN << Param("filter", options.filter) >> ELSE << >>)
    \o (IF Truthy(options.pageSize)
        THEN << Param("page[size]", options.pageSize) >> ELSE << >>)
    \o (IF Truthy(options.cursor)
        THEN << Param("page[cursor]", options.cursor) >> ELSE << >>)
    \o << Param(fieldsName, fields) >>

FlowsOptions ==
    [filter : Filters \cup {Undefined}, pageSize : {Undefined, "10"}, cursor : {Undefined}]

getFlowsKey(options) ==
    createCacheKey("flows", << Param("filter", options.filter),
                               Param("cursor", options.cursor) >>)

getFlows(c, options) ==
    getOrFetch(getFlowsKey(options),
               Request("GET", << "flows" >>,
                       ListQuery(options, "fields[flow]", "name,status,archived,...")),
               FIFTEEN_MINUTES, cacheDisabled[c])

getFlow(c, flowId) ==
    getOrFetch(createCacheKey("flow", << Param("id", flowId) >>),
               Request("GET", << "flows", flowId >>, << >>),
               FIFTEEN_MINUTES, cacheDisabled[c])

getSegments(c, options) ==
    getOrFetch(getSegmentsKey(options),
               Request("GET", << "segments" >>,
                       ListQuery(options, "fields[segment]", "name,definition,created,updated")),
               HOUR, cacheDisabled[c])

getSegment(c, segmentId) ==
    getOrFetch(createCacheKey("segment", << Param("id", segmentId) >>),
               Request("GET", << "segments", segmentId >>, << >>),
               HOUR, cacheDisabled[c])

getLists(c, options) ==
    getOrFetch(createCacheKey("lists", << Param("cursor", options.cursor) >>),
               Request("GET", << "lists" >>,
                       ListQuery(options, "fields[list]", "name,created,updated")),
               HOUR, cacheDisabled[c])

getList(c, listId) ==
    getOrFetch(createCacheKey("list", << Param("id", listId) >>),
               Request("GET", << "lists", listId >>, << >>),
               HOUR, cacheDisabled[c])

getProfiles(c, options) ==
    getOrFetch(createCacheKey("profiles", << Param("filter", options.filter),
                                             Param("cursor", options.cursor) >>),
               Request("GET", << "profiles" >>,
                       ListQuery(options, "fields[profile]", "email,first_name,...")),
               FIFTEEN_MINUTES, cacheDisabled[c])

getProfile(c, profileId) ==
    getOrFetch(createCacheKey("profile", << Param("id", profileId) >>),
               Request("GET", << "profiles", profileId >>, << >>),
               FIFTEEN_MINUTES, cacheDisabled[c])

getMetrics(c, options) ==
    getOrFetch(createCacheKey("metrics", << Param("cursor", options.cursor) >>),
               Request("GET", << "metrics" >>,
                       ListQuery(options, "fields[metric]", "name,created,updated")),
               HOUR, cacheDisabled[c])

getMetric(c, metricId) ==
    getOrFetch(createCacheKey("metric", << Param("id", metricId) >>),
               Request("GET", << "metrics", metricId >>, << >>),
               HOUR, cacheDisabled[c])

\* The key of getAccount is the plain string "account".
getAccount(c) ==
    getOrFetch(<< "account" >>, Request("GET", << "accounts" >>, << >>),
               HOUR, cacheDisabled[c])

\* ------------------------------------------------------------ CLI commands

\* A command handler is entered with its parsed arguments.  before is the
\* number of requests and hits so far.
Command(name, args) ==
    [name |-> name, pc |-> "start", args |-> args, started |-> cmd.started + 1,
     before |-> netCalls + hits, id |-> Undefined, metrics |-> [none |-> TRUE],
     result |-> [none |-> TRUE], error |-> Undefined]

\* The handler returns a value, or throws.
Returns(k, value) == [k EXCEPT !.pc = "done", !.result = value]

Throws(k, error) == [k EXCEPT !.pc = "failed", !.error = error]

\* No command is running.
CliIdle == cmd.pc \in {"idle", "done", "failed"}

\* get-flow-actions treating every call as --all.
TakesAllAlways(all) == TRUE

\* if (all): the flag is optional, "true" or "false" when given.
TakesAll(all) == all = "true"

\* { data: actions, totalCount: actions.length }
FlowActionsResult(actions) == [data |-> actions, totalCount |-> Len(actions)]

\* get-flow-actions --flow <id> [--all]: with --all the handler awaits
\* getAllFlowActions, otherwise it returns what getFlowActions(flow) gives.
getFlowActionsCommand(c, flow, all) ==
    /\ CliIdle
    /\ LET k == Command("get-flow-actions", [flow |-> flow, all |-> all])
       IN  IF TakesAll(all)
           THEN /\ getAllFlowActions(c, flow)
                /\ cmd' = [k EXCEPT !.pc = "all"]
           ELSE /\ getFlowActions(c, flow, [cursor |-> Undefined])
                /\ cmd' = IF inflight' = inflight THEN Returns(k, ret'.value)
                          ELSE [k EXCEPT !.pc = "page"]
                /\ UNCHANGED << pageVars, keyVars >>
    /\ UNCHANGED << prev, timeVars, made >>

\* getAllFlowActions has returned or thrown: the handler does the same.
getFlowActionsCommandAll ==
    /\ cmd.name = "get-flow-actions"
    /\ cmd.pc = "all"
    /\ run.pc \in {"done", "failed"}
    /\ cmd' = IF run.pc = "done" THEN Returns(cmd, FlowActionsResult(run.allActions))
              ELSE Throws(cmd, "request")
    /\ UNCHANGED << cacheVars, pageVars, keyVars, prev, timeVars, made >>

\* The request of the single getFlowActions call succeeds.
getFlowActionsCommandPage(f, ver) ==
    /\ cmd.name = "get-flow-actions"
    /\ cmd.pc = "page"
    /\ requestOk(f, ver)
    /\ cmd' = Returns(cmd, ret'.value)
    /\ UNCHANGED << pageVars, keyVars, prev, timeVars, made >>

\* The request of the single getFlowActions call fails.
getFlowActionsCommandThrow(f, kind) ==
    /\ cmd.name = "get-flow-actions"
    /\ cmd.pc = "page"
    /\ requestFail(f, kind)
    /\ cmd' = Throws(cmd, "request")
    /\ UNCHANGED << pageVars, keyVars, prev, timeVars, made >>

\* A metric name is the sequence of its characters.
Upper ==
    << "A", "B", "C", "D", "E", "F", "G", "H", "I", "J", "K", "L", "M",
       "N", "O", "P", "Q", "R", "S", "T", "U", "V", "W", "X", "Y", "Z" >>

Lower ==
    << "a", "b", "c", "d", "e", "f", "g", "h", "i", "j", "k", "l", "m",
       "n", "o", "p", "q", "r", "s", "t", "u", "v", "w", "x", "y", "z" >>

\* String.toLowerCase()
toLowerCase(str) ==
    [i \in DOMAIN str |->
        IF \E j \in DOMAIN Upper : Upper[j] = str[i]
        THEN Lower[CHOOSE j \in DOMAIN Upper : Upper[j] = str[i]]
        ELSE str[i]]

\* String.includes(part)
includes(str, part) ==
    \E i \in 0..(Len(str) - Len(part)) : SubSeq(str, i + 1, i + Len(part)) = part

PlacedOrderText == << "p", "l", "a", "c", "e", "d", " ", "o", "r", "d", "e", "r" >>

OrderPlacedText == << "o", "r", "d", "e", "r", " ", "p", "l", "a", "c", "e", "d" >>

\* The metrics an account may have: "Opened" and "Placed Order"; "Opened"
\* alone; "ORDER PLACED" before "Placed Order"; "Order" and "Placed"; none.
MetricLists ==
    [v1 |-> << [id |-> "m1", name |-> << "O", "p", "e", "n", "e", "d" >>],
               [id |-> "m2", name |-> << "P", "l", "a", "c", "e", "d", " ",
                                         "O", "r", "d", "e", "r" >>] >>,
     v2 |-> << [id |-> "m1", name |-> << "O", "p", "e", "n", "e", "d" >>] >>,
     v3 |-> << [id |-> "m3", name |-> << "O", "R", "D", "E", "R", " ",
                                         "P", "L", "A", "C", "E", "D" >>],
               [id |-> "m2", name |-> << "P", "l", "a", "c", "e", "d", " ",
                                         "O", "r", "d", "e", "r" >>] >>,
     v4 |-> << [id |-> "m4", name |-> << "O", "r", "d", "e", "r" >>],
               [id |-> "m5", name |-> << "P", "l", "a", "c", "e", "d" >>] >>,
     v5 |-> << >>]

\* metrics.data of a response to GET /metrics.
MetricsData(response) == MetricLists[response.ver]

\* The search of findPlacedOrderMetricId comparing names as they are.
findPlacedOrderExact(data) ==
    LET found == {i \in DOMAIN data :
                     \/ includes(data[i].name, PlacedOrderText)
                     \/ includes(data[i].name, OrderPlacedText)}
    IN  IF found = {} THEN Null
        ELSE LET placedOrder == data[CHOOSE i \in found : \A j \in found : i <= j]
             IN  IF Truthy(placedOrder.id) THEN placedOrder.id ELSE Null

\* findPlacedOrderMetricId after its await: the id of the first metric whose
\* lower-cased name includes "placed order" or "order placed", else null.
findPlacedOrder(data) ==
    LET found == {i \in DOMAIN data :
                     \/ includes(toLowerCase(data[i].name), PlacedOrderText)
                     \/ includes(toLowerCase(data[i].name), OrderPlacedText)}
    IN  IF found = {} THEN Null
        ELSE LET placedOrder == data[CHOOSE i \in found : \A j \in found : i <= j]
             IN  IF Truthy(placedOrder.id) THEN placedOrder.id ELSE Null

\* JSON.parse accepts the text.
JsonParses(text) == text \notin {"oops", "last_30_days"}

\* The --statistics array as parsed.
ParsedStatistics(text) == IF Truthy(text) THEN << "opens" >> ELSE Undefined

\* The options the handler passes to getCampaignReport.  The timeframe is
\* JSON when it parses and { key: timeframe } otherwise.
ReportOptions(args, id) ==
    [conversionMetricId |-> id, campaignIds |-> Undefined,
     timeframe |-> IF Truthy(args.timeframe) THEN "last_30_days" ELSE Undefined,
     statistics |-> ParsedStatistics(args.statistics)]

\* The handler calls client.getCampaignReport with the id and returns its
\* promise.
CallReport(c, k, id) ==
    /\ getCampaignReport(c, ReportOptions(k.args, id))
    /\ cmd' = IF inflight' = inflight THEN Returns([k EXCEPT !.id = id], ret'.value)
              ELSE [k EXCEPT !.id = id, !.pc = "report"]

\* get-campaign-report [--timeframe] [--statistics] [--conversion-metric]:
\* up to its first await.
getCampaignReportCommand(c, args) ==
    /\ CliIdle
    /\ LET k == Command("get-campaign-report", args)
       IN  IF Truthy(args.statistics) /\ ~JsonParses(args.statistics)
           THEN /\ cmd' = Throws(k, "--statistics must be valid JSON array")
                /\ UNCHANGED cacheVars
           ELSE IF Truthy(args.conversionMetric)
           THEN CallReport(c, k, args.conversionMetric)
           ELSE /\ getMetrics(c, [pageSize |-> Undefined, cursor |-> Undefined])
                /\ cmd' = IF inflight' = inflight
                          THEN [k EXCEPT !.pc = "found", !.metrics = ret'.value]
                          ELSE [k EXCEPT !.pc = "metrics"]
    /\ UNCHANGED << pageVars, keyVars, prev, timeVars, made >>

\* The request of getMetrics succeeds.
getCampaignReportCommandMetrics(f, ver) ==
    /\ cmd.name = "get-campaign-report"
    /\ cmd.pc = "metrics"
    /\ requestOk(f, ver)
    /\ cmd' = [cmd EXCEPT !.pc = "found", !.metrics = ret'.value]
    /\ UNCHANGED << pageVars, keyVars, prev, timeVars, made >>

\* findPlacedOrderMetricId has resolved: with an id the handler goes on to
\* the report, without one it throws.
getCampaignReportCommandFound(c) ==
    /\ cmd.name = "get-campaign-report"
    /\ cmd.pc = "found"
    /\ LET foundMetricId == findPlacedOrder(MetricsData(cmd.metrics))
       IN  IF foundMetricId # Null
           THEN CallReport(c, cmd, foundMetricId)
           ELSE /\ cmd' = Throws(cmd, "--conversion-metric is required")
                /\ UNCHANGED cacheVars
    /\ UNCHANGED << pageVars, keyVars, prev, timeVars, made >>

\* The request of getCampaignReport succeeds.
getCampaignReportCommandReport(f, ver) ==
    /\ cmd.name = "get-campaign-report"
    /\ cmd.pc = "report"
    /\ requestOk(f, ver)
    /\ cmd' = Returns(cmd, ret'.value)
    /\ UNCHANGED << pageVars, keyVars, prev, timeVars, made >>

\* The request the handler waits for fails.
getCampaignReportCommandThrow(f, kind) ==
    /\ cmd.name = "get-campaign-report"
    /\ cmd.pc \in {"metrics", "report"}
    /\ requestFail(f, kind)
    /\ cmd' = Throws(cmd, "request")
    /\ UNCHANGED << pageVars, keyVars, prev, timeVars, made >>

\* ---------------------------------------------------------- specifications

\* Steps that touch the cache and the clients only.
CacheStep == UNCHANGED << pageVars, keyVars, prev, timeVars, cliVars >>

\* The budget of one behaviour.
Budget == netCalls' <= MaxCalls /\ hits' <= MaxHits

\* No invocation of getAllFlowActions is remembered.
NoPrev ==
    [complete |-> FALSE, flowId |-> "f1", result |-> << >>, calls |-> << >>,
     net0 |-> 0, fresh |-> 0]

NoKeyIn == [resource |-> "none", p1 |-> << >>, p2 |-> << >>]

NoKeyOut == [built |-> FALSE, k1 |-> << >>, k2 |-> << >>]

InitIdle ==
    /\ upstream = [fl \in FlowIds |-> << << >> >>]
    /\ run = NoRun
    /\ keyIn = NoKeyIn
    /\ keyOut = NoKeyOut
    /\ prev = NoPrev
    /\ InitTime
    /\ InitCli

\* Keys invalidateCacheKey is called with: the campaigns' keys, and one that
\* is never stored.
InvalidateKeys == {getCampaignKey(i) : i \in CampaignIds} \cup {<< "nokey" >>}

Init == InitCache /\ InitIdle

\* Two clients working on single campaigns while time passes, with the
\* methods that remove entries.
Next ==
    \/ \E c \in Clients, i \in CampaignIds : getCampaign(c, i) /\ Budget /\ CacheStep
    \/ \E f \in inflight, ver \in Versions : requestOk(f, ver) /\ CacheStep
    \/ \E f \in inflight, kind \in FailKinds : requestFail(f, kind) /\ CacheStep
    \/ \E c \in Clients : clearCache(c) /\ CacheStep
    \/ \E c \in Clients, k \in InvalidateKeys : invalidateCacheKey(c, k) /\ CacheStep
    \/ Tick /\ CacheStep

Spec == Init /\ [][Next]_vars

\* Two clients working on single campaigns and switching the cache off and
\* on, with the methods that remove entries.
NextBypass ==
    \/ \E c \in Clients, i \in CampaignIds : getCampaign(c, i) /\ Budget /\ CacheStep
    \/ \E f \in inflight, ver \in Versions : requestOk(f, ver) /\ CacheStep
    \/ \E f \in inflight, kind \in FailKinds : requestFail(f, kind) /\ CacheStep
    \/ \E c \in Clients : disableCache(c) /\ CacheStep
    \/ \E c \in Clients : enableCache(c) /\ CacheStep
    \/ \E c \in Clients : clearCache(c) /\ CacheStep
    \/ \E c \in Clients, k \in InvalidateKeys : invalidateCacheKey(c, k) /\ CacheStep

SpecBypass == Init /\ [][NextBypass]_vars

\* All of the above together.
NextAll == Next \/ NextBypass

SpecAll == Init /\ [][NextAll]_vars

\* Two clients listing campaigns with every combination of options.
NextCampaigns ==
    \/ \E c \in Clients, o \in CampaignsOptions : getCampaigns(c, o) /\ Budget /\ CacheStep
    \/ \E f \in inflight, ver \in Versions : requestOk(f, ver) /\ CacheStep
    \/ \E f \in inflight, kind \in FailKinds : requestFail(f, kind) /\ CacheStep

SpecCampaigns == Init /\ [][NextCampaigns]_vars

\* Client c calls one of the resource operations.
Operation(c) ==
    \/ \E o \in {x \in CampaignsOptions : x.filter = Undefined /\ x.pageSize = Undefined} :
          getCampaigns(c, o)
    \/ \E i \in CampaignIds : getCampaign(c, i)
    \/ \E o \in {x \in CampaignReportOptions : x.timeframe = Undefined} :
          getCampaignReport(c, o)
    \/ \E o \in FlowsOptions : getFlows(c, o)
    \/ \E fl \in FlowIds : getFlow(c, fl)
    \/ \E fl \in FlowIds : getFlowActions(c, fl, [cursor |-> Undefined])
    \/ \E o \in {x \in FlowReportOptions : x.flowIds = Undefined} : getFlowReport(c, o)
    \/ \E o \in SegmentsOptions : getSegments(c, o)
    \/ getSegment(c, "s1")
    \/ \E o \in SegmentsOptions : getLists(c, o)
    \/ getList(c, "l1")
    \/ \E o \in FlowsOptions : getProfiles(c, o)
    \/ getProfile(c, "p1")
    \/ \E o \in SegmentsOptions : getMetrics(c, o)
    \/ getMetric(c, "m1")
    \/ getAccount(c)

\* One client using every resource operation, one call at a time.
NextTtl ==
    \/ inflight = {} /\ Operation("A") /\ Budget /\ CacheStep
    \/ \E f \in inflight : requestOk(f, "v1") /\ CacheStep
    \/ \E f \in inflight : requestFail(f, "http") /\ CacheStep

SpecTtl == Init /\ [][NextTtl]_vars

\* The values setTimeout is called with.
TimeoutValues == {1000, 60000, 120000}

ReportPaths == {<< "campaign-values-reports" >>, << "flow-values-reports" >>}

\* The request() a call of client c runs sets its abort timer; armed keeps
\* the latest delay for a report call and for another call.
SetTimer(c) ==
    armed' = IF inflight' = inflight THEN armed
             ELSE LET f == CHOOSE x \in inflight' \ inflight : TRUE
                      ms == requestTimeout(c, f.req)
                  IN  IF f.req.path \in ReportPaths
                      THEN [armed EXCEPT ![c].report = ms]
                      ELSE [armed EXCEPT ![c].other = ms]

\* The report operations and two of the others.
TimedOperation(c) ==
    \/ \E o \in {x \in CampaignReportOptions : x.timeframe = Undefined} :
          getCampaignReport(c, o)
    \/ \E o \in {x \in FlowReportOptions : x.flowIds = Undefined} : getFlowReport(c, o)
    \/ \E i \in CampaignIds : getCampaign(c, i)
    \/ getAccount(c)

\* A client setting its timeout and calling operations, one call at a
\* time.  armed starts afresh when the timeout is set.
NextTimeout ==
    \/ \E ms \in TimeoutValues :
          /\ setTimeout("A", ms)
          /\ armed' = [armed EXCEPT !["A"] = [report |-> NoTimer, other |-> NoTimer]]
          /\ UNCHANGED << pageVars, keyVars, prev, cliVars >>
    \/ /\ inflight = {}
       /\ TimedOperation("A")
       /\ Budget
       /\ SetTimer("A")
       /\ UNCHANGED << pageVars, keyVars, prev, timeout, cliVars >>
    \/ \E f \in inflight : requestOk(f, "v1") /\ CacheStep
    \/ \E f \in inflight : requestFail(f, "timeout") /\ CacheStep

SpecTimeout == Init /\ [][NextTimeout]_vars

\* getCampaigns called with and without a channel.
ChannelOptions ==
    {o \in CampaignsOptions : o.filter = Undefined /\ o.pageSize = Undefined}

\* Two clients listing campaigns by channel while time passes.
NextChannel ==
    \/ \E c \in Clients, o \in ChannelOptions : getCampaigns(c, o) /\ Budget /\ CacheStep
    \/ \E f \in inflight, ver \in Versions : requestOk(f, ver) /\ CacheStep
    \/ \E f \in inflight, kind \in FailKinds : requestFail(f, kind) /\ CacheStep
    \/ Tick /\ CacheStep

SpecChannel == Init /\ [][NextChannel]_vars

\* The chains of pages the API may hold for a flow: 1..MaxPages pages.
RECURSIVE Chains(_)
Chains(n) ==
    IF n = 0 THEN {<< >>}
    ELSE {<< d >> \o ch : d \in PageData, ch \in Chains(n - 1)}

InitPage ==
    /\ InitCache
    /\ upstream \in [FlowIds -> UNION {Chains(n) : n \in 1..MaxPages}]
    /\ run = NoRun
    /\ keyIn = NoKeyIn
    /\ keyOut = NoKeyOut
    /\ prev = NoPrev
    /\ InitTime
    /\ InitCli

\* getAllFlowActions invocations, one at a time, over a fixed upstream, with
\* the cache switched off and on.
NextPage ==
    \/ \E c \in Clients, fl \in FlowIds :
          getAllFlowActions(c, fl) /\ run'.started <= MaxRuns /\ UNCHANGED << prev, timeVars, cliVars >>
    \/ getAllFlowActionsCall /\ UNCHANGED << prev, timeVars, cliVars >>
    \/ \E f \in inflight, ver \in Versions :
          getAllFlowActionsPage(f, ver) /\ UNCHANGED << prev, timeVars, cliVars >>
    \/ \E f \in inflight, kind \in FailKinds :
          getAllFlowActionsThrow(f, kind) /\ UNCHANGED << prev, timeVars, cliVars >>
    \/ \E c \in Clients : disableCache(c) /\ CacheStep
    \/ \E c \in Clients : enableCache(c) /\ CacheStep

SpecPage == InitPage /\ [][NextPage]_vars

\* The pending request of the invocation settles, one way or the other.
getAllFlowActionsSettle ==
    \E f \in inflight :
        \/ \E ver \in Versions : getAllFlowActionsPage(f, ver)
        \/ \E kind \in FailKinds : getAllFlowActionsThrow(f, kind)

\* getAllFlowActions invocations, one at a time, over a fixed upstream.
NextTerm ==
    \/ \E c \in Clients, fl \in FlowIds :
          getAllFlowActions(c, fl) /\ run'.started <= MaxRuns /\ UNCHANGED << prev, timeVars, cliVars >>
    \/ getAllFlowActionsCall /\ UNCHANGED << prev, timeVars, cliVars >>
    \/ \E f \in inflight, ver \in Versions :
          getAllFlowActionsPage(f, ver) /\ UNCHANGED << prev, timeVars, cliVars >>
    \/ \E f \in inflight, kind \in FailKinds :
          getAllFlowActionsThrow(f, kind) /\ UNCHANGED << prev, timeVars, cliVars >>

\* The loop runs on when it can, and every request settles: request() aborts
\* a fetch that has not answered within its timeout.
SpecTerm ==
    /\ InitPage
    /\ [][NextTerm]_vars
    /\ WF_vars(getAllFlowActionsCall /\ UNCHANGED << prev, timeVars, cliVars >>)
    /\ WF_vars(getAllFlowActionsSettle /\ UNCHANGED << prev, timeVars, cliVars >>)

\* getAllFlowActions invocations of one client, one at a time, against an
\* API whose links.next may have any shape, with the cache switched off and
\* on and time passing.
NextLinks ==
    \/ \E fl \in FlowIds :
          getAllFlowActions("A", fl) /\ run'.started <= MaxRuns /\ UNCHANGED << prev, timeVars, cliVars >>
    \/ getAllFlowActionsCall /\ Budget /\ UNCHANGED << prev, timeVars, cliVars >>
    \/ \E f \in inflight, ver \in {"v1"} \cup LinkShapes :
          getAllFlowActionsPage(f, ver) /\ UNCHANGED << prev, timeVars, cliVars >>
    \/ \E f \in inflight : getAllFlowActionsThrow(f, "http") /\ UNCHANGED << prev, timeVars, cliVars >>
    \/ disableCache("A") /\ CacheStep
    \/ enableCache("A") /\ CacheStep
    \/ Tick /\ CacheStep

SpecLinks == InitPage /\ [][NextLinks]_vars

\* Nothing constructed yet.
InitConfig ==
    /\ InitCache
    /\ upstream = [fl \in FlowIds |-> << << >> >>]
    /\ run = NoRun
    /\ keyIn = NoKeyIn
    /\ keyOut = NoKeyOut
    /\ prev = NoPrev
    /\ InitTime
    /\ made = [c \in Clients |-> NotMade]
    /\ cmd = NoCommand

\* The files found at the two paths the constructor tries.
ConfigFiles == [1..2 -> ConfigContents]

\* What can be called on the client c: it has to be there.
ClientStep(c) ==
    /\ made[c].status = "instance"
    /\ \/ \E i \in CampaignIds : getCampaign(c, i) /\ Budget
       \/ disableCache(c)
       \/ enableCache(c)
    /\ CacheStep

\* A client is constructed, again after a failure, and used.
NextConfig ==
    \/ \E files \in ConfigFiles : construct("A", files)
    \/ ClientStep("A")
    \/ \E f \in inflight : requestOk(f, "v1") /\ CacheStep
    \/ \E f \in inflight : requestFail(f, "http") /\ CacheStep

SpecConfig == InitConfig /\ [][NextConfig]_vars

\* The values of the optional --all flag.
AllFlags == {"true", "false", Undefined}

\* get-flow-actions commands, one at a time, over a fixed upstream, with the
\* cache switched off and on between them.
NextFlowCli ==
    \/ \E fl \in FlowIds, all \in AllFlags :
          /\ run.pc \in {"idle", "done", "failed"}
          /\ getFlowActionsCommand("A", fl, all)
          /\ cmd'.started <= MaxRuns
    \/ getAllFlowActionsCall /\ UNCHANGED << prev, timeVars, cliVars >>
    \/ \E f \in inflight :
          getAllFlowActionsPage(f, "v1") /\ UNCHANGED << prev, timeVars, cliVars >>
    \/ \E f \in inflight :
          getAllFlowActionsThrow(f, "http") /\ UNCHANGED << prev, timeVars, cliVars >>
    \/ getFlowActionsCommandAll
    \/ \E f \in inflight : getFlowActionsCommandPage(f, "v1")
    \/ \E f \in inflight : getFlowActionsCommandThrow(f, "http")
    \/ CliIdle /\ disableCache("A") /\ CacheStep
    \/ CliIdle /\ enableCache("A") /\ CacheStep

SpecFlowCli == InitPage /\ [][NextFlowCli]_vars

\* The arguments of get-campaign-report: a preset name or nothing for the
\* timeframe; nothing, a JSON array or other text for the statistics;
\* nothing, the empty string or an id for the conversion metric.
ReportArgs ==
    [timeframe : {Undefined, "last_30_days"},
     statistics : {Undefined, "[\"opens\"]", "oops"},
     conversionMetric : {Undefined, "", "m9"}]

\* get-campaign-report commands, one at a time, against accounts with
\* different metrics, with the cache switched off and on between them.
NextReportCli ==
    \/ \E args \in ReportArgs :
          getCampaignReportCommand("A", args) /\ cmd'.started <= MaxRuns
    \/ \E f \in inflight, ver \in DOMAIN MetricLists : getCampaignReportCommandMetrics(f, ver)
    \/ getCampaignReportCommandFound("A")
    \/ \E f \in inflight : getCampaignReportCommandReport(f, "v1")
    \/ \E f \in inflight : getCampaignReportCommandThrow(f, "http")
    \/ CliIdle /\ disableCache("A") /\ CacheStep
    \/ CliIdle /\ enableCache("A") /\ CacheStep

SpecReportCli == Init /\ [][NextReportCli]_vars

\* The cursors getFlowActions is called with, and the keys of its pages.
FlowActionsCursors == {Undefined} \cup {CursorTokens[i] : i \in 1..(MaxPages - 1)}

FlowActionsKeys ==
    {getFlowActionsKey(fl, [cursor |-> c]) : fl \in FlowIds, c \in FlowActionsCursors}

\* The keys of the pages an invocation asked for.
CalledKeys(fl, calls) == {getFlowActionsKey(fl, [cursor |-> calls[i]]) : i \in DOMAIN calls}

\* On entry to getAllFlowActions(fl): remember what the invocation before
\* returned, if it was one of the same flow that returned; the number of
\* requests made so far; and until when every page that invocation asked
\* for stays in the cache (0 if some page is not there now).
Remember(fl) ==
    LET again == run.pc = "done" /\ run.flowId = fl
        keys == CalledKeys(fl, run.calls)
        warm == again /\ \A k \in keys : Valid(store, k, now)
        ends == {store[k].expiresAt : k \in keys}
    IN  prev' = [complete |-> again,
                 flowId |-> fl,
                 result |-> IF again THEN run.allActions ELSE << >>,
                 calls |-> IF again THEN run.calls ELSE << >>,
                 net0 |-> netCalls,
                 fresh |-> IF warm THEN CHOOSE e \in ends : \A x \in ends : e <= x ELSE 0]

\* Invalidating one of the remembered pages ends their stay in the cache.
Forget(k) ==
    prev' = IF k \in CalledKeys(prev.flowId, prev.calls)
            THEN [prev EXCEPT !.fresh = 0] ELSE prev

\* The flow actions change at the API; the number of pages stays.
UpstreamChange ==
    /\ run.pc \notin {"call", "await"}
    /\ upstream' \in {u \in [FlowIds -> UNION {Chains(n) : n \in 1..MaxPages}] :
                         /\ u # upstream
                         /\ \A fl \in FlowIds : Len(u[fl]) = Len(upstream[fl])}
    /\ UNCHANGED << cacheVars, run, keyVars, prev, timeVars, cliVars >>

\* getAllFlowActions invocations of one client, one at a time, with caching
\* enabled, while time passes and the flow actions change upstream.
NextRerun ==
    \/ \E fl \in FlowIds :
          getAllFlowActions("A", fl) /\ run'.started <= MaxRuns /\ Remember(fl)
          /\ UNCHANGED << timeVars, cliVars >>
    \/ getAllFlowActionsCall /\ UNCHANGED << prev, timeVars, cliVars >>
    \/ \E f \in inflight, ver \in Versions :
          getAllFlowActionsPage(f, ver) /\ UNCHANGED << prev, timeVars, cliVars >>
    \/ \E f \in inflight :
          getAllFlowActionsThrow(f, "http") /\ UNCHANGED << prev, timeVars, cliVars >>
    \/ Tick /\ CacheStep
    \/ UpstreamChange

SpecRerun == InitPage /\ [][NextRerun]_vars

\* The same invocations, every request succeeding, while time passes and
\* pages are invalidated.
NextSlots ==
    \/ \E fl \in FlowIds :
          getAllFlowActions("A", fl) /\ run'.started <= MaxRuns /\ Remember(fl)
          /\ UNCHANGED << timeVars, cliVars >>
    \/ getAllFlowActionsCall /\ UNCHANGED << prev, timeVars, cliVars >>
    \/ \E f \in inflight, ver \in Versions :
          getAllFlowActionsPage(f, ver) /\ UNCHANGED << prev, timeVars, cliVars >>
    \/ \E k \in FlowActionsKeys :
          invalidateCacheKey("A", k) /\ Forget(k)
          /\ UNCHANGED << pageVars, keyVars, timeVars, cliVars >>
    \/ Tick /\ CacheStep

SpecSlots == InitPage /\ [][NextSlots]_vars

\* The parameter bags of at most n entries over the names of BagNames, no
\* name twice, each value undefined or one of BagValues.
RECURSIVE Bags(_)
Bags(n) ==
    IF n = 0 THEN {<< >>}
    ELSE LET shorter == Bags(n - 1)
             without(nm) == {b \in shorter : \A i \in DOMAIN b : b[i].name # nm}
         IN  shorter \cup
             UNION {{<< Param(nm, v) >> \o b : v \in BagValues \cup {Undefined},
                                              b \in without(nm)} : nm \in BagNames}

InitKey ==
    /\ InitCache
    /\ upstream = [fl \in FlowIds |-> << << >> >>]
    /\ run = NoRun
    /\ keyIn \in [resource : Resources, p1 : Bags(MaxParams), p2 : Bags(MaxParams)]
    /\ keyOut = NoKeyOut
    /\ prev = NoPrev
    /\ InitTime
    /\ InitCli

\* The key builder is applied to the resource name with each of the two bags.
BuildKeys ==
    /\ ~keyOut.built
    /\ keyOut' = [built |-> TRUE,
                  k1 |-> createCacheKey(keyIn.resource, keyIn.p1),
                  k2 |-> createCacheKey(keyIn.resource, keyIn.p2)]
    /\ UNCHANGED << cacheVars, pageVars, keyIn, prev, timeVars, cliVars >>

NextKey == BuildKeys

SpecKey == InitKey /\ [][NextKey]_vars

\* ------------------------------------------------------------------ claims

\* The store is enabled and client c does not bypass it.
Caching(c) == ~disabled /\ ~cacheDisabled[c]

\* The step issues exactly one request: for key k, URL req, storing or not.
Issues(k, req, write) ==
    /\ netCalls' = netCalls + 1
    /\ \E f \in inflight' :
          /\ f \notin inflight
          /\ inflight' = inflight \cup {f}
          /\ f.key = k /\ f.req = req /\ f.write = write

\* C1: with caching enabled, a getCampaign call on a key that has a valid
\* entry is a hit: it issues no request, returns the stored value and adds
\* one to hits only; a call on a key with no valid entry is a miss: it adds
\* one to misses only and issues exactly one request, whose result is what
\* the call returns and what the store then holds for the key.  An entry
\* changes only when a request for its key resolves, so the second of two
\* successive calls returns what the first returned.
C1_CacheHitReuse ==
    [][ /\ \A c \in Clients, i \in CampaignIds :
              (getCampaign(c, i) /\ Caching(c)) =>
                  LET k == getCampaignKey(i) IN
                  IF Valid(store, k, now)
                  THEN /\ hits' = hits + 1 /\ misses' = misses
                       /\ netCalls' = netCalls /\ inflight' = inflight
                       /\ ret' = Returned("hit", k, store[k].value)
                       /\ store' = store
                  ELSE /\ misses' = misses + 1 /\ hits' = hits
                       /\ Issues(k, getCampaignRequest(i), TRUE)
        /\ \A f \in inflight, ver \in Versions :
              (requestOk(f, ver) /\ f.write /\ ~disabled) =>
                  /\ ret' = Returned("miss", f.key, Response(f.req, ver))
                  /\ Valid(store', f.key, now')
                  /\ store'[f.key].value = ret'.value
                  /\ netCalls' = netCalls /\ hits' = hits /\ misses' = misses
        /\ \A k \in DOMAIN store' :
              (k \notin DOMAIN store \/ store'[k] # store[k]) =>
                  \E f \in inflight, ver \in Versions :
                      f.key = k /\ f.write /\ requestOk(f, ver)
      ]_vars

\* A miss was fetched and stored, then the same key was served from the cache.
C1_Witness ==
    /\ ret.kind = "hit" /\ hits = 1 /\ misses = 1 /\ netCalls = 1
    /\ Valid(store, ret.key, now) /\ ret.value = store[ret.key].value

\* C2: an entry expires FIFTEEN_MINUTES after the time it was stored; a call
\* is a hit only on an entry with now < expiresAt, and a call on an expired
\* entry is a miss that issues a request, the entry being still in the store.
C2_TtlExpiry ==
    [][ /\ \A c \in Clients, i \in CampaignIds :
              (getCampaign(c, i) /\ Caching(c)) =>
                  LET k == getCampaignKey(i) IN
                  /\ (hits' = hits + 1) <=> (k \in DOMAIN store /\ now < store[k].expiresAt)
                  /\ (k \in DOMAIN store /\ now >= store[k].expiresAt) =>
                        /\ misses' = misses + 1
                        /\ Issues(k, getCampaignRequest(i), TRUE)
        /\ \A f \in inflight, ver \in Versions :
              (requestOk(f, ver) /\ f.write /\ ~disabled) =>
                  /\ store'[f.key].insertedAt = now
                  /\ store'[f.key].expiresAt = now + FIFTEEN_MINUTES
      ]_vars

\* An expired entry is still in the store and a second miss on its key has a
\* request in flight.
C2_Witness ==
    \E f \in inflight :
        /\ f.write /\ f.key \in DOMAIN store
        /\ now >= store[f.key].expiresAt
        /\ misses = 2 /\ netCalls = 2

\* C3: a failing request (non-2xx, transport error, timeout abort) hands the
\* error to the caller and leaves the entries and the counters as they
\* were; an entry appears or changes only when a request for its key
\* succeeds; a call on a key with no valid entry is a miss that issues a
\* request.
C3_FailureNonPollution ==
    [][ /\ \A f \in inflight, kind \in FailKinds :
              requestFail(f, kind) =>
                  /\ ret' = Returned("error", f.key, Failure(kind))
                  /\ store' = store /\ hits' = hits /\ misses' = misses
                  /\ netCalls' = netCalls
        /\ \A k \in DOMAIN store' :
              (k \notin DOMAIN store \/ store'[k] # store[k]) =>
                  \E f \in inflight, ver \in Versions :
                      f.key = k /\ f.write /\ requestOk(f, ver)
        /\ \A c \in Clients, i \in CampaignIds :
              (getCampaign(c, i) /\ Caching(c) /\ ~Valid(store, getCampaignKey(i), now)) =>
                  /\ misses' = misses + 1
                  /\ Issues(getCampaignKey(i), getCampaignRequest(i), TRUE)
      ]_vars

\* A call missed and timed out, nothing was stored, and the next call on the
\* same key missed again and has its request in flight.
C3_Witness ==
    /\ ret.kind = "error" /\ ret.value = Failure("timeout")
    /\ store = NoEntries /\ misses = 2 /\ hits = 0
    /\ \E f \in inflight : f.key = ret.key /\ f.write

\* C4: disableCache sets the client's bypass flag; a call by a client whose
\* flag is set issues a request whether or not a valid entry exists, counts
\* neither a hit nor a miss, and neither the call nor the settlement of its
\* request changes the store.
C4_BypassSemantics ==
    [][ /\ \A c \in Clients : disableCache(c) => cacheDisabled'[c]
        /\ \A c \in Clients, i \in CampaignIds :
              (getCampaign(c, i) /\ cacheDisabled[c]) =>
                  /\ Issues(getCampaignKey(i), getCampaignRequest(i), FALSE)
                  /\ store' = store /\ hits' = hits /\ misses' = misses
        /\ \A f \in inflight, ver \in Versions :
              (requestOk(f, ver) /\ ~f.write) =>
                  /\ ret' = Returned("bypass", f.key, Response(f.req, ver))
                  /\ store' = store
        /\ \A f \in inflight, kind \in FailKinds :
              (requestFail(f, kind) /\ ~f.write) => store' = store
      ]_vars

\* A bypassing call returned fresh data for a key whose valid entry holds
\* other data, and the entry is still there.
C4_Witness ==
    /\ ret.kind = "bypass"
    /\ Valid(store, ret.key, now)
    /\ store[ret.key].value # ret.value

\* C5: disableCache and enableCache leave the entries and the counters as
\* they are; no step taken while the store is disabled, other than
\* clearCache and invalidateCacheKey, changes an entry; enableCache turns
\* off both the store's flag and the client's, after which the client's call
\* on a valid entry is a hit that issues no request.
C5_DisableEnableRoundTrip ==
    [][ /\ \A c \in Clients :
              (disableCache(c) \/ enableCache(c)) =>
                  store' = store /\ hits' = hits /\ misses' = misses
        /\ \A c \in Clients : enableCache(c) => Caching(c)'
        /\ (disabled /\ store' # store) =>
              \/ \E c \in Clients : clearCache(c)
              \/ \E c \in Clients, k \in InvalidateKeys : invalidateCacheKey(c, k)
        /\ \A c \in Clients, i \in CampaignIds :
              (getCampaign(c, i) /\ Caching(c) /\ Valid(store, getCampaignKey(i), now)) =>
                  /\ ret' = Returned("hit", getCampaignKey(i), store[getCampaignKey(i)].value)
                  /\ netCalls' = netCalls
      ]_vars

\* One miss stored an entry, one call bypassed the cache, and with caching
\* enabled again the entry is served as a hit.
C5_Witness ==
    /\ ~disabled /\ inflight = {}
    /\ ret.kind = "hit" /\ hits = 1 /\ misses = 1 /\ netCalls = 2

\* C6: invalidateCacheKey(k) on a key that has an entry returns true, removes
\* that entry and leaves every other entry as it was; on a key with no entry
\* it returns false and leaves the store as it was; the counters do not
\* change in either case.
C6_InvalidateTargeting ==
    [][ \A c \in Clients, k \in InvalidateKeys :
            invalidateCacheKey(c, k) =>
                /\ hits' = hits /\ misses' = misses
                /\ IF k \in DOMAIN store
                   THEN /\ ret' = Returned("value", k, [removed |-> TRUE])
                        /\ ~Valid(store', k, now')
                        /\ DOMAIN store' = DOMAIN store \ {k}
                        /\ \A x \in DOMAIN store' : store'[x] = store[x]
                   ELSE /\ ret' = Returned("value", k, [removed |-> FALSE])
                        /\ store' = store
      ]_vars

\* An entry was invalidated and the other key's entry is still stored.
C6_Witness ==
    /\ ret = Returned("value", ret.key, [removed |-> TRUE])
    /\ ret.key \notin DOMAIN store
    /\ Cardinality(DOMAIN store) = 1

\* C7: clearCache returns the number of entries the store held, leaves no
\* entry (the reported size is 0, no key has a valid entry) and leaves the
\* counters as they were.
C7_ClearCompleteness ==
    [][ \A c \in Clients :
            clearCache(c) =>
                /\ ret' = Returned("value", << >>, [count |-> Cardinality(DOMAIN store)])
                /\ getCacheStats'.size = 0
                /\ \A k \in InvalidateKeys : ~Valid(store', k, now')
                /\ getCacheStats'.hits = hits /\ getCacheStats'.misses = misses
      ]_vars

\* Two entries were cleared after a hit and two misses were counted.
C7_Witness ==
    /\ ret = Returned("value", << >>, [count |-> 2])
    /\ store = NoEntries
    /\ hits = 1 /\ misses = 2

\* The defined entries of a parameter bag, order forgotten.
Canon(params) == {params[i] : i \in {j \in DOMAIN params : params[j].value # Undefined}}

\* C8: two parameter bags that are equal once their undefined-valued entries
\* are dropped and the order of their entries is ignored give the same key
\* for the same resource name; a bag with no defined entry gives the key made
\* of the resource name alone, as getSegments' bag does when no cursor is given.
C8_KeyDeterminism ==
    /\ keyOut.built =>
          /\ (Canon(keyIn.p1) = Canon(keyIn.p2)) => keyOut.k1 = keyOut.k2
          /\ (Canon(keyIn.p1) = {}) => keyOut.k1 = << keyIn.resource >>
    /\ \A o \in SegmentsOptions : getSegmentsKey(o) = << "segments" >>

\* Keys were built for two bags holding the same two defined entries in
\* different orders.
C8_Witness ==
    /\ keyOut.built
    /\ keyIn.p1 # keyIn.p2
    /\ Canon(keyIn.p1) = Canon(keyIn.p2)
    /\ Cardinality(Canon(keyIn.p1)) = 2
    /\ keyOut.k1 = keyOut.k2

\* C9: a getCampaigns call served from the cache receives the response to
\* the request its own parameters make: no call receives a response cached
\* for a call with other parameters.
C9_KeySensitivity ==
    [][ \A c \in Clients, o \in CampaignsOptions :
            (getCampaigns(c, o) /\ hits' = hits + 1) =>
                /\ ret'.value.req.path = getCampaignsRequest(o).path
                /\ \A n \in {"filter", "page[size]", "page[cursor]"} :
                      searchParamsGet(ret'.value.req.query, n)
                          = searchParamsGet(getCampaignsRequest(o).query, n)
      ]_vars

\* The data of the pages of a chain, one page after the other.
RECURSIVE Flatten(_)
Flatten(pages) ==
    IF pages = << >> THEN << >> ELSE Head(pages) \o Flatten(Tail(pages))

\* C10: when getAllFlowActions returns for a flow whose chain has n pages,
\* the result is the concatenation of the pages' data in chain order,
\* duplicates kept; getFlowActions has been called n times, the first time
\* without a cursor and the i-th time with the cursor of page i-1's next
\* link; and at no time has it been called more than n times.
C10_PaginationConcatenation ==
    LET pages == upstream[run.flowId]
        n == Len(pages)
        page(i) == FlowActionsPage(getFlowActionsRequest(run.flowId, [cursor |-> run.calls[i]]),
                                   pages, i)
    IN  /\ Len(run.calls) <= n
        /\ run.pc = "done" =>
              /\ run.allActions = Flatten(pages)
              /\ Len(run.calls) = n
              /\ run.calls[1] = Undefined
              /\ \A i \in 2..n :
                    run.calls[i] = searchParamsGet(page(i - 1).links.next.query, "page[cursor]")

\* An invocation returned the actions of a two-page chain whose pages share
\* an action, after an earlier invocation had filled the cache.
C10_Witness ==
    /\ run.pc = "done"
    /\ upstream[run.flowId] = << << "x", "y" >>, << "y" >> >>
    /\ run.allActions = << "x", "y", "y" >>
    /\ run.calls = << Undefined, "p2" >>
    /\ hits > 0

\* The step hands a page of flow actions to the loop of getAllFlowActions.
PageFetched ==
    \/ getAllFlowActionsCall /\ inflight' = inflight
    \/ \E f \in inflight, ver \in Versions : getAllFlowActionsPage(f, ver)

\* C11: getAllFlowActions returns in the very step that hands it a page
\* without a next link, and only in such a step; and every invocation that
\* has started comes to an end, by returning or by throwing.
C11_PaginationTermination ==
    /\ [][ /\ PageFetched => ((run'.pc = "done") <=> (ret'.value.links.next = NoLink))
           /\ (run.pc # "done" /\ run'.pc = "done") => PageFetched
         ]_vars
    /\ (run.pc \in {"call", "await"}) ~> (run.pc \in {"done", "failed"})

\* An invocation fetched a page with a next link, then one without, and
\* returned.
C11_Witness ==
    /\ run.pc = "done"
    /\ Len(run.calls) = 2
    /\ ret.kind = "miss"
    /\ ret.value.links.next = NoLink

\* C12: an invocation of getAllFlowActions that follows one of the same flow
\* and runs while every page the earlier one asked for is still in the
\* cache, unexpired, makes no request and returns the sequence the earlier
\* one returned.
C12_PaginationCacheIndependence ==
    (run.pc = "done" /\ now < prev.fresh) =>
        /\ netCalls = prev.net0
        /\ run.allActions = prev.result

\* A second invocation returned two pages from the cache after the flow
\* actions had changed upstream.
C12_Witness ==
    /\ run.pc = "done"
    /\ now < prev.fresh
    /\ Len(run.calls) = 2
    /\ run.allActions # Flatten(upstream[run.flowId])

\* The entry under key k is the same before and after the step.
Untouched(k) ==
    /\ (k \in DOMAIN store') <=> (k \in DOMAIN store)
    /\ k \in DOMAIN store => store'[k] = store[k]

\* C13: the key of a page is made of the flow id and the cursor, so two
\* pages of one flow or of two flows never share a key; a getFlowActions
\* call of the loop and the arrival of its page leave every other page's
\* entry alone; and the loop issues a request for a page exactly when that
\* page has no unexpired entry, so a re-run issues requests for exactly the
\* missing pages.
C13_PerPageCacheSlots ==
    /\ \A fl1 \in {"f1", "f2"}, fl2 \in {"f1", "f2"} :
           \A c1 \in FlowActionsCursors, c2 \in FlowActionsCursors :
               getFlowActionsKey(fl1, [cursor |-> c1]) = getFlowActionsKey(fl2, [cursor |-> c2])
                   => fl1 = fl2 /\ c1 = c2
    /\ [][ /\ getAllFlowActionsCall =>
                  LET options == [cursor |-> run.cursor]
                      k == getFlowActionsKey(run.flowId, options)
                  IN  /\ netCalls' = IF Valid(store, k, now) THEN netCalls ELSE netCalls + 1
                      /\ Valid(store, k, now) => ret'.kind = "hit" /\ inflight' = inflight
                      /\ ~Valid(store, k, now) =>
                             \E f \in inflight' \ inflight :
                                 /\ f.key = k
                                 /\ f.req = getFlowActionsRequest(run.flowId, options)
                      /\ \A k2 \in FlowActionsKeys \ {k} : Untouched(k2)
           /\ \A f \in inflight, ver \in Versions :
                  getAllFlowActionsPage(f, ver) =>
                      \A k2 \in FlowActionsKeys \ {f.key} : Untouched(k2) ]_vars

\* A re-run of a two-page flow fetched the first page again and took the
\* second from the cache.
C13_Witness ==
    /\ run.pc = "done"
    /\ prev.complete
    /\ Len(run.calls) = 2
    /\ netCalls = prev.net0 + 1
    /\ ret.kind = "hit"

\* The ttl an operation is meant to store with, by the resource token of
\* the operation's keys.
FiveMinuteTokens == {"campaign_report", "flow_report"}

FifteenMinuteTokens ==
    {"campaigns", "campaign", "flows", "flow", "flow_actions", "profiles", "profile"}

HourTokens == {"segments", "segment", "lists", "list", "metrics", "metric", "account"}

AssignedTtl(key) ==
    IF key[1] \in FiveMinuteTokens THEN FIVE_MINUTES
    ELSE IF key[1] \in FifteenMinuteTokens THEN FIFTEEN_MINUTES
    ELSE HOUR

\* C14: the report operations store for five minutes; the campaign, flow,
\* flow action and profile operations for fifteen minutes; the segment,
\* list, metric and account operations for an hour, whatever the arguments:
\* each call hands getOrFetch the ttl of its operation, and the entry it
\* stores expires that long after it was stored.
C14_TtlAssignment ==
    /\ \A f \in inflight :
           /\ f.key[1] \in FiveMinuteTokens \cup FifteenMinuteTokens \cup HourTokens
           /\ f.ttl = AssignedTtl(f.key)
    /\ \A k \in DOMAIN store :
           store[k].expiresAt = store[k].insertedAt + AssignedTtl(k)

\* Entries of a five-minute and of a one-hour operation are in the store.
C14_Witness ==
    \E k1 \in DOMAIN store, k2 \in DOMAIN store :
        /\ k1[1] = "flow_report" /\ store[k1].expiresAt = store[k1].insertedAt + FIVE_MINUTES
        /\ k2[1] = "account" /\ store[k2].expiresAt = store[k2].insertedAt + HOUR

C16_SingleFlight ==
    \A f \in inflight, g \in inflight :
        (f.key = g.key /\ f.write /\ g.write) => f = g

\* What client B observes of the cache: the counters and the entries that
\* getCacheStats reports, and whether B's calls bypass the cache.
Observes(c) == << hits, misses, store, disabled \/ cacheDisabled[c] >>

\* C17: no operation on client A (a resource call, disableCache,
\* enableCache, clearCache, invalidateCacheKey) changes the hits, misses,
\* entries or bypass behaviour that client B observes.
C17_StoreOwnership ==
    [][ (\/ \E i \in CampaignIds : getCampaign("A", i)
         \/ disableCache("A")
         \/ enableCache("A")
         \/ clearCache("A")
         \/ \E k \in InvalidateKeys : invalidateCacheKey("A", k))
        => Observes("B")' = Observes("B") ]_vars

\* C18: under every setting of a client's timeout, the abort timer of its
\* report calls (getCampaignReport, getFlowReport) is longer than the abort
\* timer of its other resource calls.
C18_TimeoutClasses ==
    \A c \in Clients :
        (armed[c].report # NoTimer /\ armed[c].other # NoTimer)
            => armed[c].report > armed[c].other

\* C19: no step lowers the hit counter or the miss counter, whether a
\* resource call, the arrival of a response, clearCache, invalidateCacheKey,
\* disableCache or enableCache; and a call that does not bypass the cache
\* raises exactly one of the two counters, by exactly 1.
C19_CounterMonotonicity ==
    [][ /\ hits' >= hits
        /\ misses' >= misses
        /\ \A c \in Clients, i \in CampaignIds :
               (Caching(c) /\ getCampaign(c, i)) =>
                   \/ hits' = hits + 1 /\ misses' = misses
                   \/ hits' = hits /\ misses' = misses + 1 ]_vars

\* Hits and misses were counted, the cache was cleared and then disabled,
\* and the counters stand.
C19_Witness ==
    /\ hits = 1
    /\ misses = 2
    /\ store = NoEntries
    /\ disabled

\* The options with the channel given as ch.
WithChannel(o, ch) == [o EXCEPT !.channel = ch]

\* C20: getCampaigns without a channel is getCampaigns with channel
\* "email": for the same other options the two make the same request, with
\* the same filter, and use the same key, while channel "sms" and channel
\* "mobile_push" give other keys; so a call of either kind is a hit exactly
\* when the key of the "email" call has an unexpired entry, whichever of the
\* two stored it, and otherwise it makes the request of the "email" call.
C20_DefaultChannel ==
    /\ \A o \in CampaignsOptions :
           LET none == WithChannel(o, Undefined)
               email == WithChannel(o, "email")
           IN  /\ getCampaignsKey(none) = getCampaignsKey(email)
               /\ getCampaignsRequest(none) = getCampaignsRequest(email)
               /\ searchParamsGet(getCampaignsRequest(none).query, "filter")
                      = searchParamsGet(getCampaignsRequest(email).query, "filter")
               /\ \A ch \in {"sms", "mobile_push"} :
                      getCampaignsKey(WithChannel(o, ch)) # getCampaignsKey(none)
    /\ [][ \A c \in Clients, o \in ChannelOptions :
               (/\ o.channel \in {Undefined, "email"}
                /\ hits' # hits \/ misses' # misses
                /\ getCampaigns(c, o)) =>
                   LET email == WithChannel(o, "email")
                       k == getCampaignsKey(email)
                   IN  IF Valid(store, k, now)
                       THEN /\ ret' = Returned("hit", k, store[k].value)
                            /\ netCalls' = netCalls
                            /\ inflight' = inflight
                       ELSE Issues(k, getCampaignsRequest(email), TRUE) ]_vars

\* A call returned from the cache the response to the request for email
\* campaigns.
C20_Witness ==
    /\ ret.kind = "hit"
    /\ ret.key = getCampaignsKey([channel |-> Undefined, filter |-> Undefined,
                                  pageSize |-> Undefined, cursor |-> Undefined])
    /\ searchParamsGet(ret.value.req.query, "filter") = buildChannelFilter("email")

\* C22: a step taken while the store is disabled adds no entry and
\* overwrites none, also when the step is the arrival of the response of a
\* call that missed while caching was enabled.
C22_NoWriteWhileDisabled ==
    [][ disabled =>
            \A k \in DOMAIN store' : k \in DOMAIN store /\ store'[k] = store[k] ]_vars

\* A call that had missed got its response while the store was disabled,
\* and its key has no entry.
C22_Witness ==
    /\ disabled
    /\ ret.kind = "miss"
    /\ ret.key \notin DOMAIN store

\* C27: when disableCache() or enableCache() returns, the flag of the client
\* it was called on equals the flag of the store: both set by disableCache,
\* both cleared by enableCache; and each of the two, called where its flags
\* are already as it sets them, changes nothing, so calling it twice in a
\* row leaves the state of calling it once.
C27_FlagAgreement ==
    [][ \A c \in Clients :
            /\ disableCache(c) =>
                   /\ cacheDisabled'[c] /\ disabled'
                   /\ (cacheDisabled[c] /\ disabled) => UNCHANGED cacheVars
            /\ enableCache(c) =>
                   /\ ~cacheDisabled'[c] /\ ~disabled'
                   /\ (~cacheDisabled[c] /\ ~disabled) => UNCHANGED cacheVars ]_vars

\* A call of client A bypassed the cache after A disabled it: A's flag and
\* the store's flag are both set.
C27_Witness ==
    /\ cacheDisabled["A"]
    /\ disabled
    /\ ret.kind = "bypass"

\* The page the loop body has just received: the page a request brought, or
\* the page a hit handed over.
Received ==
    \/ run.pc = "await" /\ run'.pc # "await"
    \/ run.pc = "call" /\ run'.pc # "await" /\ run'.calls # run.calls

\* The values of the page[cursor] parameters of a link.
CursorValues(link) ==
    {link.query[i].value : i \in {j \in DOMAIN link.query : link.query[j].name = "page[cursor]"}}

\* C26: when the loop of getAllFlowActions has received a page, its next
\* cursor is the value of the page[cursor] parameter of the page's
\* links.next and the loop goes on with it; when the page has no links.next,
\* or the link has no page[cursor] parameter or an empty one, the cursor is
\* undefined and the invocation is done after that page, with the items of
\* the earlier pages followed by the items of this one.
C26_CursorExtraction ==
    [][ (Received /\ run'.pc # "failed") =>
            LET page == ret'.value
                named == IF page.links.next = NoLink THEN {}
                         ELSE CursorValues(page.links.next) \ {""}
            IN  /\ run'.allActions = run.allActions \o page.data
                /\ IF named = {}
                   THEN run'.cursor = Undefined /\ run'.pc = "done"
                   ELSE run'.cursor \in named /\ run'.pc = "call" ]_vars

\* An invocation is done after the first of two pages: the page came with a
\* links.next whose page[cursor] is empty, and the result is that page's items.
C26_Witness ==
    /\ run.pc = "done"
    /\ Len(upstream[run.flowId]) = 2
    /\ Len(run.calls) = 1
    /\ ret.value.links.next # NoLink
    /\ CursorValues(ret.value.links.next) = {""}
    /\ run.allActions = upstream[run.flowId][1]

Keyless == {"null", "empty", "directEmpty"}

\* The first of the files that parses is keyless, or none parses.
NoKeyFound(files) ==
    LET parsed == {i \in DOMAIN files : Parses(files[i])}
    IN  \/ parsed = {}
        \/ \E i \in parsed : (\A j \in parsed : i <= j) /\ files[i] \in Keyless

\* C21: when none of the candidate config files can be read and parsed, or
\* the file that was parsed has neither key, the constructor throws: the
\* cache is not touched and no request is made by that step, there is no
\* instance afterwards, and nothing can be called on a client that is not
\* there.
C21_ConfigurationMissing ==
    /\ [][ \A c \in Clients :
               (made'[c] # made[c] /\ NoKeyFound(made'[c].files)) =>
                   /\ made'[c].status = "thrown"
                   /\ made'[c].apiKey = Undefined
                   /\ UNCHANGED cacheVars ]_vars
    /\ [](\A c \in Clients : made[c].status # "instance" => ~ENABLED ClientStep(c))

\* The first path did not parse and the second held an object without keys:
\* the constructor threw, with no entry stored and no request made.
C21_Witness ==
    /\ made["A"] = Thrown(<< "unreadable", "empty" >>, "Missing required config")
    /\ store = NoEntries
    /\ netCalls = 0

\* C25: get-flow-actions with --all returns data and totalCount, data being
\* all that getAllFlowActions accumulated, the items of every page in order,
\* and totalCount its length, after one getFlowActions call per page;
\* without --all it makes exactly one getFlowActions call, with no cursor,
\* returns that page as it is, links.next included, and makes no call for
\* the page after it.
C25_FlowActionsModes ==
    (cmd.name = "get-flow-actions" /\ cmd.pc = "done") =>
        LET pages == upstream[cmd.args.flow]
            calls == netCalls + hits - cmd.before
        IN  IF cmd.args.all = "true"
            THEN /\ cmd.result = [data |-> Flatten(pages), totalCount |-> Len(Flatten(pages))]
                 /\ cmd.result.data = run.allActions
                 /\ calls = Len(pages)
            ELSE /\ cmd.result =
                        FlowActionsPage(
                            getFlowActionsRequest(cmd.args.flow, [cursor |-> Undefined]),
                            pages, 1)
                 /\ calls = 1

\* After a command without --all had fetched the first page of a two-page
\* chain, a command with --all returned the three items of both pages, the
\* first page from the cache.
C25_Witness ==
    /\ cmd.name = "get-flow-actions"
    /\ cmd.pc = "done"
    /\ cmd.args.all = "true"
    /\ cmd.started = 2
    /\ upstream[cmd.args.flow] = << << "x", "y" >>, << "y" >> >>
    /\ cmd.result = [data |-> << "x", "y", "y" >>, totalCount |-> 3]
    /\ hits = 1

\* The id findPlacedOrderMetricId is to give for each account: the first
\* metric named with "placed order" or "order placed" in any case.
PlacedOrderIds == [v1 |-> "m2", v2 |-> Null, v3 |-> "m3", v4 |-> Null, v5 |-> Null]

\* The requests for a campaign report among the requests given.
ReportRequests(fs) == {f \in fs : f.req.path = << "campaign-values-reports" >>}

\* The campaign_report entries of a store.
ReportEntries(s) == {<< k, s[k] >> : k \in {x \in DOMAIN s : x[1] = "campaign_report"}}

\* C24: get-campaign-report calls getCampaignReport only with a non-empty
\* conversionMetricId: the --conversion-metric given, or, when that is
\* absent or empty, the id found by findPlacedOrderMetricId in the metrics
\* list before the report is called, the first metric named with "placed
\* order" or "order placed" in any case; when no metric is named so, the
\* command fails without a campaign-report request and without storing a
\* campaign_report entry.
C24_ReportOrdering ==
    /\ [](\A f \in ReportRequests(inflight) :
              searchParamsGet(f.req.body, "conversion_metric_id") \notin {Undefined, "", Null})
    /\ []((cmd.name = "get-campaign-report" /\ cmd.pc \in {"report", "done"}) =>
              IF cmd.args.conversionMetric \notin {Undefined, ""}
              THEN cmd.id = cmd.args.conversionMetric /\ cmd.metrics = [none |-> TRUE]
              ELSE /\ cmd.metrics # [none |-> TRUE]
                   /\ cmd.id = PlacedOrderIds[cmd.metrics.ver]
                   /\ cmd.id \notin {Undefined, "", Null})
    /\ [][ (cmd'.name = "get-campaign-report" /\ cmd'.pc \in {"metrics", "found"}) =>
               /\ ReportRequests(inflight') = ReportRequests(inflight)
               /\ ReportEntries(store') = ReportEntries(store) ]_vars
    /\ [][ (cmd.name = "get-campaign-report" /\ cmd.pc = "found" /\ cmd' # cmd) =>
               IF PlacedOrderIds[cmd.metrics.ver] = Null
               THEN /\ cmd'.pc = "failed"
                    /\ cmd'.error = "--conversion-metric is required"
                    /\ UNCHANGED cacheVars
               ELSE /\ cmd'.pc \in {"report", "done"}
                    /\ cmd'.id = PlacedOrderIds[cmd.metrics.ver] ]_vars

\* A command without --conversion-metric returned a report for metric m3,
\* "ORDER PLACED", found in a metrics list that came from the cache.
C24_Witness ==
    /\ cmd.name = "get-campaign-report"
    /\ cmd.pc = "done"
    /\ cmd.args.conversionMetric = Undefined
    /\ cmd.id = "m3"
    /\ cmd.started = 2
    /\ hits > 0
    /\ ret.key = getCampaignReportKey(ReportOptions(cmd.args, "m3"))

====
